---- MODULE Spec2Model ----
(***************************************************************************)
(* GPU collective execution engine of horovod/common/ops/gpu_operations.cc *)
(* GPUOpContext (InitGPU, InitGPUQueue, FinalizeGPUQueue), the staging     *)
(* copies of GPUAllreduce / GPUAllgather, the device streams they enqueue  *)
(* work on, and the finalizer worker pool that waits for the recorded      *)
(* events and invokes the entries' callbacks.                              *)
(***************************************************************************)
EXTENDS Integers, Sequences, FiniteSets, TLC

\* ---------------------------------------------------------------- bounds
MaxBatches == 2
MaxEntries == 2
MaxNcclStreams == 2
NumWorkers == 2
MaxFaults == 1
MaxLookups == 2
MaxKernels == 2
MaxTensorBytes == 2

\* ------------------------------------------------------- program constants
DedicatedSlot == 8
NullStream == 0
CPU_DEVICE_ID == -1

Devices == {0, 1}
EngineDevices == {0}
Gens == 0..(MaxNcclStreams - 1)
BatchIds == 0..(MaxBatches - 1)
AssignmentTables == {<<1, 0>>, <<0>>, <<2, 0, 1>>}
EngineTables == {<<1, 0>>}

VARIABLES
  stream_assignment,   \* global_state_->stream_assignment
  current_gpu_stream,  \* global_state_->current_gpu_stream (rotating pointer)
  current_nccl_stream, \* global_state_->current_nccl_stream (generation)
  stream_index,        \* global_state_->stream_index
  num_nccl_streams,    \* global_state_->num_nccl_streams
  timeline,            \* global_state_->timeline.Initialized()
  streams,             \* gpu_context_->streams[generation][slot], created entries
  event_queue,         \* GPUOpContext::event_queue
  stream,              \* GPUOpContext::stream, a pointer into streams
  pc,                  \* position of the calling thread in the current batch
  batches,             \* the batches begun so far, in order
  devq,                \* device work enqueued per stream handle, FIFO
  done,                \* device work items that have completed
  tasks,               \* finalization tasks, by batch id
  fusion_refs,         \* shared_ptr owners of each fusion buffer held by tasks
  cbCount,             \* callback invocations per batch and entry
  cbStatus,            \* status passed to the callback per batch and entry
  ret,                 \* status returned by FinalizeGPUQueue per batch
  host_buffer,         \* GPUOpContext::host_buffer, 0 = nullptr
  freed,               \* host buffers passed to free(), as a bag of pointers
  faults,              \* hardware errors reported so far
  created,             \* the table keys StreamCreate was called for, in order
  new_stream,          \* GPUOpContext::new_stream, a pointer into streams
  threads,             \* threads inside InitGPU: position, table key, handle read
  enabled,             \* the last call of Enabled: variant, arguments, result
  kernels,             \* ComputeAsync invocations of the adapter kernels, in order
  staging,             \* a fused batch's tensors, its fusion buffer and the copies made
  allocation,          \* the last allocation through TFOpContext: call, status, handle
  converted            \* the last status conversion: direction, argument, result

gvars == <<stream_assignment, num_nccl_streams, current_gpu_stream, current_nccl_stream,
          stream_index, timeline>>
yvars == <<staging, allocation, converted>>
xvars == <<new_stream, threads, enabled, kernels, yvars>>
cvars == <<event_queue, stream, pc, batches, host_buffer, xvars>>
dvars == <<devq, done>>
tvars == <<tasks, fusion_refs, cbCount, cbStatus, faults, freed>>
vars == <<gvars, streams, created, cvars, dvars, tvars, ret>>

Handles == 0..(MaxNcclStreams * 13)
NoStream == <<-1, -1>>
NoTask == [state |-> "none"]
Threads == {1, 2}
NoThread == [pc |-> "idle", calls |-> 0]
NoCall == [variant |-> "none"]

\* the batch the calling thread is working on
cur == Len(batches) - 1
entries == batches[Len(batches)]

\* gpu_context_->StreamCreate: a fresh handle, different from the n created before
StreamCreate(n) == n + 1

\* the test of the entry before StreamCreate (50)
StreamIsNullAlways(h) == TRUE

StreamIsNullNever(h) == FALSE

StreamIsNull(h) == h = NullStream

\* the rotating pointer after a reduction batch (88)
AdvancePointerTwice(p) == (p + 2) % Len(stream_assignment)

AdvancePointerStay(p) == p

AdvancePointerNoWrap(p) == p + 1

AdvancePointer(p) == (p + 1) % Len(stream_assignment)

\* the generation after a batch was handed off (127-128)
NextGenerationStay(g) == g

NextGeneration(g) == (g + 1) % num_nccl_streams

\* slot selection shared by InitGPU (39-48) and InitGPUQueue (69-76)
SelectSlotNoNesting(device, is_allreduce, is_para) ==
  IF is_para THEN DedicatedSlot
  ELSE IF is_allreduce THEN stream_assignment[current_gpu_stream + 1]
  ELSE device

SelectSlot(device, is_allreduce, is_para) ==
  IF is_allreduce
    THEN IF is_para THEN DedicatedSlot
         ELSE stream_assignment[current_gpu_stream + 1]
    ELSE device

\* global_state_->stream_index after InitGPUQueue selected slot s (75, inside 70-76)
RecordedSlotAlways(is_allreduce, s) == s

RecordedSlot(is_allreduce, s) == IF is_allreduce THEN s ELSE stream_index

\* event_queue after its reset at the head of InitGPUQueue (68)
EmptyQueueKeep(q) == q

EmptyQueue(q) == <<>>

\* the stream the staging copies and the scaling are enqueued on (146,153,159,176,184)
CopyStream(first_entry) == <<current_nccl_stream, first_entry.device>>


\* gpu_context_->streams[g][s]: nullptr until a stream was created for the key
StreamAt(g, s) == IF <<g, s>> \in DOMAIN streams THEN streams[<<g, s>>] ELSE NullStream

\* Device work: the batch and entry it belongs to, the table key its stream was looked
\* up with and the handle found there. gpu_context_->RecordEvent(event_queue, name,
\* *stream) enqueues an event item.
WorkItem(kind, b, e, key) ==
  [b |-> b, k |-> kind, name |-> kind, e |-> e, key |-> key, h |-> StreamAt(key[1], key[2])]
EventItem(name, b, key) ==
  [b |-> b, k |-> "event", name |-> name, e |-> 0, key |-> key, h |-> StreamAt(key[1], key[2])]

\* the work a stream holds, in submission order
QueueAt(q, h) == IF h \in DOMAIN q THEN q[h] ELSE <<>>

\* enqueue item on the stream whose handle the table holds for key
Enqueue(q, key, item) ==
  LET h == StreamAt(key[1], key[2])
  IN IF h \in DOMAIN q THEN [q EXCEPT ![h] = Append(@, item)] ELSE q @@ (h :> <<item>>)

TypeOK ==
  /\ current_gpu_stream \in 0..(Len(stream_assignment) - 1)
  /\ current_nccl_stream \in Gens
  /\ pc \in {"idle", "InitGPUQueue", "MemcpyIn", "Scale", "Collective",
             "MemcpyOut", "Finalize"}
  /\ Len(batches) <= MaxBatches

InitEngine(tables) ==
  /\ stream_assignment \in tables
  /\ num_nccl_streams \in 1..MaxNcclStreams
  /\ current_gpu_stream = 0
  /\ current_nccl_stream = 0
  /\ stream_index = 0
  /\ timeline \in BOOLEAN
  /\ streams = <<>>
  /\ event_queue = <<>>
  /\ stream = NoStream
  /\ pc = "idle"
  /\ batches = <<>>
  /\ devq = <<>>
  /\ done = {}
  /\ tasks = [b \in BatchIds |-> NoTask]
  /\ fusion_refs = [d \in Devices, g \in Gens |-> 0]
  /\ cbCount = [b \in BatchIds |-> [e \in 1..MaxEntries |-> 0]]
  /\ cbStatus = [b \in BatchIds |-> [e \in 1..MaxEntries |-> "none"]]
  /\ ret = [b \in BatchIds |-> "none"]
  /\ faults = 0
  /\ host_buffer = 0
  /\ freed = <<>>
  /\ created = <<>>
  /\ new_stream = NoStream
  /\ threads = [t \in Threads |-> NoThread]
  /\ enabled = NoCall
  /\ kernels = <<>>
  /\ allocation = NoCall
  /\ converted = NoCall

InitWith(tables) == InitEngine(tables) /\ staging = NoCall

Init == InitWith(EngineTables)

InitCaller == InitWith(AssignmentTables)

\* ------------------------------------------------------ the calling thread

\* The batches handed to the engine: the entries (their device, their number, which
\* of them carry a callback) and the flags the batch's operation passes.
BatchInput(device, is_allreduce, is_para, scaled, n, callback) ==
  [device |-> device, is_allreduce |-> is_allreduce, is_para |-> is_para,
   scaled |-> scaled, n |-> n, callback |-> callback]

AllCallbacks(n) == [i \in 1..n |-> TRUE]
JoinFirst(n) == [i \in 1..n |-> i # 1]

\* entry lists of the engine runs: every length with all callbacks set, and the
\* longest with a join entry (null callback) in front
EntryLists == {AllCallbacks(m) : m \in 1..MaxEntries} \cup {JoinFirst(MaxEntries)}

\* every combination of device and flags
AllInputs ==
  {BatchInput(d, a, p, a, Len(cb), cb) :
     d \in Devices, a \in BOOLEAN, p \in BOOLEAN, cb \in EntryLists}

\* allgather batches, and allreduce batches on the rotating slot with a scale factor
EngineInputs ==
  {BatchInput(d, a, FALSE, a, Len(cb), cb) :
     d \in EngineDevices, a \in BOOLEAN, cb \in EntryLists}

\* what the model keeps of a batch: its input, the generation and slot InitGPUQueue
\* selected (gen, slot), the slot InitGPU selected (gpu_slot), -1 while not selected,
\* and the rotating pointer when the batch began (ptr)
BatchRecord(in, gpu_slot) ==
  [device |-> in.device, is_allreduce |-> in.is_allreduce,
   is_para |-> in.is_para, n |-> in.n, callback |-> in.callback,
   scaled |-> in.scaled, gen |-> -1, slot |-> -1, gpu_slot |-> gpu_slot,
   ptr |-> current_gpu_stream]

\* InitGPU for a newly negotiated batch
InitGPU(in) ==
  /\ pc = "idle"
  /\ Len(batches) < MaxBatches
  /\ LET s == SelectSlot(in.device, in.is_allreduce, in.is_para)
         g == current_nccl_stream
     IN /\ streams' = IF StreamIsNull(StreamAt(g, s))
                        THEN (<<g, s>> :> StreamCreate(Len(created))) @@ streams
                        ELSE streams
        /\ created' = IF StreamIsNull(StreamAt(g, s))
                        THEN Append(created, <<g, s>>)
                        ELSE created
        /\ batches' = Append(batches, BatchRecord(in, s))
  /\ pc' = "InitGPUQueue"
  /\ UNCHANGED <<gvars, event_queue, stream, host_buffer, xvars, dvars, tvars, ret>>

\* InitGPUQueue for batch b, whose record is e; before are the batches begun before it
InitGPUQueueOf(e, b, before) ==
  /\ LET s == SelectSlot(e.device, e.is_allreduce, e.is_para)
         key == <<current_nccl_stream, s>>
         ev == EventItem("QUEUE", b, key)
     IN /\ stream_index' = RecordedSlot(e.is_allreduce, s)
        /\ stream' = key
        /\ event_queue' = IF timeline THEN Append(EmptyQueue(event_queue), ev)
                                       ELSE EmptyQueue(event_queue)
        /\ devq' = IF timeline THEN Enqueue(devq, key, ev) ELSE devq
        /\ batches' = Append(before, [e EXCEPT !.gen = current_nccl_stream, !.slot = s])
  /\ current_gpu_stream' = IF e.is_allreduce
                             THEN AdvancePointer(current_gpu_stream)
                             ELSE current_gpu_stream
  /\ pc' = "MemcpyIn"
  /\ UNCHANGED <<stream_assignment, num_nccl_streams, current_nccl_stream, timeline, streams, created,
                 host_buffer, xvars, done, tvars, ret>>

\* InitGPUQueue after InitGPU, for the same batch
InitGPUQueue ==
  /\ pc = "InitGPUQueue"
  /\ InitGPUQueueOf(entries, cur, SubSeq(batches, 1, Len(batches) - 1))

\* InitGPUQueue for a batch InitGPU was not called for
InitGPUQueueAlone(in) ==
  /\ pc = "idle"
  /\ Len(batches) < MaxBatches
  /\ InitGPUQueueOf(BatchRecord(in, -1), Len(batches), batches)

\* the operation returns after InitGPU: the batch goes on without this context's queue
InitGPUAlone ==
  /\ pc = "InitGPUQueue"
  /\ pc' = "idle"
  /\ UNCHANGED <<gvars, streams, created, event_queue, stream, batches, host_buffer, xvars,
                 dvars, tvars, ret>>

\* the address of a table entry (59): never the null pointer
EntryAddressIsNull(key) == FALSE

\* InitNewStream (57-64): new_stream is made to point at the entry of slot times%10+3;
\* called between two batches or before a batch is handed off
InitNewStream(times) ==
  /\ pc \in {"idle", "Finalize"}
  /\ LET key == <<current_nccl_stream, (times % 10) + 3>>
     IN /\ streams' = IF EntryAddressIsNull(key)
                        THEN (key :> StreamCreate(Len(created))) @@ streams
                        ELSE streams
        /\ created' = IF EntryAddressIsNull(key) THEN Append(created, key) ELSE created
        /\ new_stream' = key
  /\ UNCHANGED <<gvars, event_queue, stream, pc, batches, host_buffer, threads, enabled,
                 kernels, yvars, dvars, tvars, ret>>

\* device work of the batch in hand, enqueued behind what the stream of key holds
RECURSIVE EnqueueAll(_, _, _)
EnqueueAll(q, key, items) ==
  IF items = <<>> THEN q
  ELSE EnqueueAll(Enqueue(q, key, Head(items)), key, Tail(items))

\* after the copies into the buffer: scale (allreduce with a factor), then transfer
AfterMemcpyIn == IF entries.scaled THEN "Scale" ELSE "Collective"

\* MemcpyInFusionBuffer: MemcpyEntryInFusionBuffer (142-147, 172-177) for each entry
MemcpyEntryIn ==
  /\ pc = "MemcpyIn"
  /\ devq' = EnqueueAll(devq, CopyStream(entries),
                [e \in 1..entries.n |-> WorkItem("copyin", cur, e, CopyStream(entries))])
  /\ pc' = AfterMemcpyIn
  /\ UNCHANGED <<gvars, streams, created, event_queue, stream, batches, host_buffer, xvars,
                 done, tvars, ret>>

GPUAllreduceMemcpyEntryInFusionBuffer ==
  pc = "MemcpyIn" /\ entries.is_allreduce /\ MemcpyEntryIn

GPUAllgatherMemcpyEntryInFusionBuffer ==
  pc = "MemcpyIn" /\ ~entries.is_allreduce /\ MemcpyEntryIn

GPUAllreduceScaleBuffer ==
  /\ pc = "Scale"
  /\ devq' = Enqueue(devq, CopyStream(entries), WorkItem("scale", cur, 0, CopyStream(entries)))
  /\ pc' = "Collective"
  /\ UNCHANGED <<gvars, streams, created, event_queue, stream, batches, host_buffer, xvars,
                 done, tvars, ret>>

\* the collective primitive, issued on the stream InitGPUQueue selected
Collective ==
  /\ pc = "Collective"
  /\ devq' = Enqueue(devq, stream, WorkItem("collective", cur, 0, stream))
  /\ pc' = "MemcpyOut"
  /\ UNCHANGED <<gvars, streams, created, event_queue, stream, batches, host_buffer, xvars,
                 done, tvars, ret>>

\* MemcpyOutFusionBuffer: MemcpyEntryOutFusionBuffer (149-154, 179-185) for each entry
MemcpyEntryOut ==
  /\ pc = "MemcpyOut"
  /\ devq' = EnqueueAll(devq, CopyStream(entries),
                [e \in 1..entries.n |-> WorkItem("copyout", cur, e, CopyStream(entries))])
  /\ pc' = "Finalize"
  /\ UNCHANGED <<gvars, streams, created, event_queue, stream, batches, host_buffer, xvars,
                 done, tvars, ret>>

GPUAllreduceMemcpyEntryOutFusionBuffer ==
  pc = "MemcpyOut" /\ entries.is_allreduce /\ MemcpyEntryOut

GPUAllgatherMemcpyEntryOutFusionBuffer ==
  pc = "MemcpyOut" /\ ~entries.is_allreduce /\ MemcpyEntryOut

\* global_state_->fusion_buffer.GetBuffer(device, framework, generation): the key
GetBufferAdvanced(device, generation) == <<device, (generation + 1) % num_nccl_streams>>

GetBuffer(device, generation) == <<device, generation>>

\* the status FinalizeGPUQueue returns (130)
FinalizeStatusOK == "OK"

FinalizeStatus == "IN_PROGRESS"

FinalizeGPUQueueWith(free_host_buffer) ==
  /\ pc = "Finalize"
  /\ LET ev == EventItem("", cur, stream)
           evt_queue == Append(event_queue, ev)
           fusion_buffer == GetBuffer(entries.device, current_nccl_stream)
     IN /\ event_queue' = evt_queue
        /\ devq' = Enqueue(devq, stream, ev)
        /\ tasks' = [tasks EXCEPT ![cur] =
             [state |-> "queued", n |-> entries.n, callback |-> entries.callback,
              device |-> entries.device, cpu_buffer |-> host_buffer,
              fusion_buffer |-> fusion_buffer, free_host_buffer |-> free_host_buffer,
              evt_queue |-> evt_queue, err |-> FALSE, i |-> 0, log |-> <<>>]]
        /\ fusion_refs' = [fusion_refs EXCEPT ![fusion_buffer[1], fusion_buffer[2]] = @ + 1]
  /\ current_nccl_stream' = NextGeneration(current_nccl_stream)
  /\ ret' = [ret EXCEPT ![cur] = FinalizeStatus]
  /\ pc' = "idle"
  /\ UNCHANGED <<stream_assignment, num_nccl_streams, current_gpu_stream, stream_index,
                 timeline, streams, created,
                 stream, batches, host_buffer, xvars, done,
                 cbCount, cbStatus, faults, freed>>

\* free_host_buffer takes its default argument, true (92)
FinalizeGPUQueue == FinalizeGPUQueueWith(TRUE)

\* -------------------------------------------------------------- the device

\* The device executes the item at the head of each stream; the item completes.
\* A recorded event completes when the stream reaches it.
DeviceComplete(h) ==
  /\ h \in DOMAIN devq
  /\ devq[h] # <<>>
  /\ done' = done \cup {Head(devq[h])}
  /\ devq' = [devq EXCEPT ![h] = Tail(@)]
  /\ UNCHANGED <<gvars, streams, created, cvars, tvars, ret>>

\* ------------------------------------------------- the finalizer worker pool

Active(b) == tasks[b].state \in {"wait", "cb"}

\* a worker takes the oldest queued task; gpu_context->SetDevice (110)
TaskStart(b) ==
  /\ tasks[b].state = "queued"
  /\ \A c \in BatchIds : c < b => tasks[c].state # "queued"
  /\ Cardinality({c \in BatchIds : Active(c)}) < NumWorkers
  /\ tasks' = [tasks EXCEPT ![b].state = "wait"]
  /\ UNCHANGED <<gvars, streams, created, cvars, dvars, fusion_refs, cbCount, cbStatus, faults,
                 freed, ret>>

AllDone(q) == \A k \in 1..Len(q) : q[k] \in done

\* the queue the task of batch b waits on: the lambda's own copy of event_queue, made
\* when FinalizeGPUQueue built the closure (99, 108-109)
WaitedEventsByReference(b) == event_queue

WaitedEvents(b) == tasks[b].evt_queue

\* the host buffers passed to free() (113-115)
FreeHostBuffer(free_host_buffer, cpu_buffer) ==
  IF free_host_buffer /\ cpu_buffer # 0 THEN Append(freed, cpu_buffer) ELSE freed

\* WaitForEvents (112) returns once every event of the captured queue has completed;
\* the host buffer is freed (113-115) and the loop over the entries begins
WaitForEvents(b) ==
  /\ tasks[b].state = "wait"
  /\ AllDone(WaitedEvents(b))
  /\ freed' = FreeHostBuffer(tasks[b].free_host_buffer, tasks[b].cpu_buffer)
  /\ tasks' = [tasks EXCEPT ![b].state = "cb", ![b].i = 1]
  /\ UNCHANGED <<gvars, streams, created, cvars, dvars, fusion_refs, cbCount, cbStatus, faults, ret>>

\* WaitForEvents (112) returns after a probe reported a hardware error, which it
\* surfaced through error_check_callback
WaitForEventsError(b) ==
  /\ tasks[b].state = "wait"
  /\ AllDone(WaitedEvents(b))
  /\ faults < MaxFaults
  /\ faults' = faults + 1
  /\ freed' = FreeHostBuffer(tasks[b].free_host_buffer, tasks[b].cpu_buffer)
  /\ tasks' = [tasks EXCEPT ![b].state = "cb", ![b].i = 1, ![b].err = TRUE]
  /\ UNCHANGED <<gvars, streams, created, cvars, dvars, fusion_refs, cbCount, cbStatus, ret>>

\* the status handed to every callback (121)
CallbackStatusPropagated(err) == IF err THEN "UNKNOWN_ERROR" ELSE "OK"

CallbackStatus(err) == "OK"

\* the test of the entry's callback (120)
CallbackNotNullAlways(callback) == TRUE

CallbackNotNull(callback) == callback

\* the loop over the entries (117): the entry after entry i
NextEntryRepeat(i) == i

NextEntrySkip(i) == i + 2

NextEntry(i) == i + 1

\* what one iteration of the loop does for entry i, in order (118-122): the end of
\* the entry's timeline activity, then its callback unless it is null
TimelineEnd(i) == [e |-> i, k |-> "End"]
Callback(i) == [e |-> i, k |-> "callback"]

LoopBodyCallbackFirst(i, has_callback) ==
  IF has_callback THEN <<Callback(i), TimelineEnd(i)>> ELSE <<TimelineEnd(i)>>

LoopBody(i, has_callback) ==
  IF has_callback THEN <<TimelineEnd(i), Callback(i)>> ELSE <<TimelineEnd(i)>>

\* owners of the fusion buffer after the task's closure is destroyed
ReleaseKeep(n) == n

Release(n) == n - 1

\* One iteration of the loop of lines 117-123. After the last entry the task returns
\* (124) and its captures, the fusion_buffer reference among them, are destroyed.
InvokeCallback(b) ==
  /\ tasks[b].state = "cb"
  /\ LET i == tasks[b].i
         last == NextEntry(i) > tasks[b].n
         fb == tasks[b].fusion_buffer
     IN /\ IF CallbackNotNull(tasks[b].callback[i])
             THEN /\ cbCount' = [cbCount EXCEPT ![b][i] = @ + 1]
                  /\ cbStatus' = [cbStatus EXCEPT ![b][i] = CallbackStatus(tasks[b].err)]
             ELSE UNCHANGED <<cbCount, cbStatus>>
        /\ tasks' = [tasks EXCEPT ![b].i = NextEntry(i),
                                  ![b].log = @ \o LoopBody(i, CallbackNotNull(tasks[b].callback[i])),
                                  ![b].state = IF last THEN "done" ELSE "cb"]
        /\ fusion_refs' = IF last
                            THEN [fusion_refs EXCEPT ![fb[1], fb[2]] = Release(@)]
                            ELSE fusion_refs
  /\ UNCHANGED <<gvars, streams, created, cvars, dvars, faults, freed, ret>>

\* the calling thread, after InitGPU
Caller ==
  \/ InitGPUQueue
  \/ GPUAllreduceMemcpyEntryInFusionBuffer
  \/ GPUAllgatherMemcpyEntryInFusionBuffer
  \/ GPUAllreduceScaleBuffer
  \/ Collective
  \/ GPUAllreduceMemcpyEntryOutFusionBuffer
  \/ GPUAllgatherMemcpyEntryOutFusionBuffer
  \/ FinalizeGPUQueue

Device == \E h \in Handles : DeviceComplete(h)

Finalizer ==
  \/ \E b \in BatchIds : TaskStart(b)
  \/ \E b \in BatchIds : WaitForEvents(b)
  \/ \E b \in BatchIds : WaitForEventsError(b)
  \/ \E b \in BatchIds : InvokeCallback(b)

Next ==
  \/ \E in \in EngineInputs : InitGPU(in)
  \/ Caller
  \/ Device
  \/ Finalizer

\* the engine: calling thread, device and finalizer pool running concurrently
Spec == Init /\ [][Next]_vars

\* the device completes what its streams hold and the pool's workers keep running
Fairness == WF_vars(Device) /\ WF_vars(Finalizer)

\* the engine with the timeline on: every batch records a QUEUE marker and the final one
InitLive == Init /\ timeline

SpecLive == InitLive /\ [][Next]_vars /\ Fairness

\* the arguments InitNewStream is called with: slots 8 and 5
NewStreamTimes == {5, 12}

NextCaller ==
  \/ \E in \in AllInputs : InitGPU(in)
  \/ \E in \in AllInputs : InitGPUQueueAlone(in)
  \/ InitGPUAlone
  \/ \E times \in NewStreamTimes : InitNewStream(times)
  \/ Caller

\* the calling thread alone, over every assignment table and every flag combination
SpecCaller == InitCaller /\ [][NextCaller]_vars

\* ------------------------------------------- batches with a host buffer

\* the operation allocates a host buffer for the batch in hand: host_buffer = malloc
AllocateHostBuffer ==
  /\ pc = "MemcpyIn"
  /\ host_buffer # cur + 1
  /\ host_buffer' = cur + 1
  /\ UNCHANGED <<gvars, streams, created, event_queue, stream, pc, batches, xvars,
                 dvars, tvars, ret>>

\* single-entry batches on one device
HostInputs == {BatchInput(d, a, FALSE, a, 1, AllCallbacks(1)) : d \in EngineDevices, a \in BOOLEAN}

NextHost ==
  \/ \E in \in HostInputs : InitGPU(in)
  \/ AllocateHostBuffer
  \/ Caller
  \/ FinalizeGPUQueueWith(FALSE)
  \/ Device
  \/ Finalizer

\* the engine with operations that allocate a host buffer for some of their batches
\* and ask for its release or not
SpecHost == Init /\ [][NextHost]_vars

\* --------------------------------------- two threads inside InitGPU at once

\* the flags and devices of the batches the two threads call InitGPU for
RaceInputs ==
  {BatchInput(d, a, p, a, 1, AllCallbacks(1)) : d \in Devices, a \in BOOLEAN, p \in BOOLEAN}

\* thread t selects the slot (39-48) and reads the table entry (49-50)
InitGPULookup(t, in) ==
  /\ threads[t].pc = "idle"
  /\ threads[t].calls < MaxLookups
  /\ LET key == <<current_nccl_stream, SelectSlot(in.device, in.is_allreduce, in.is_para)>>
     IN threads' = [threads EXCEPT ![t] =
          [pc |-> "checked", calls |-> @.calls + 1, key |-> key,
           h |-> StreamAt(key[1], key[2])]]
  /\ UNCHANGED <<gvars, streams, created, event_queue, stream, pc, batches, host_buffer,
                 new_stream, enabled, kernels, yvars, dvars, tvars, ret>>

\* thread t found the entry null at 50 and StreamCreate (51) stores a new stream in it
InitGPUStreamCreate(t) ==
  /\ threads[t].pc = "checked"
  /\ StreamIsNull(threads[t].h)
  /\ streams' = (threads[t].key :> StreamCreate(Len(created))) @@ streams
  /\ created' = Append(created, threads[t].key)
  /\ threads' = [threads EXCEPT ![t].pc = "idle"]
  /\ UNCHANGED <<gvars, event_queue, stream, pc, batches, host_buffer,
                 new_stream, enabled, kernels, yvars, dvars, tvars, ret>>

\* thread t found a stream in the entry at 50 and returns
InitGPUReturn(t) ==
  /\ threads[t].pc = "checked"
  /\ ~StreamIsNull(threads[t].h)
  /\ threads' = [threads EXCEPT ![t].pc = "idle"]
  /\ UNCHANGED <<gvars, streams, created, event_queue, stream, pc, batches, host_buffer,
                 new_stream, enabled, kernels, yvars, dvars, tvars, ret>>

NextRace ==
  \/ \E t \in Threads : \E in \in RaceInputs : InitGPULookup(t, in)
  \/ \E t \in Threads : InitGPUStreamCreate(t)
  \/ \E t \in Threads : InitGPUReturn(t)

\* two threads calling InitGPU with no synchronization between them
SpecRace == InitCaller /\ [][NextRace]_vars

\* ------------------------------------------- Enabled of the device variants

GPUAllreduceEnabled(param_manager, device, response) == device # CPU_DEVICE_ID

GPUAllgatherEnabled(param_manager, device, response) == device # CPU_DEVICE_ID

GPUBroadcastEnabledAlways(param_manager, device, response) == TRUE

GPUBroadcastEnabled(param_manager, device, response) == device # CPU_DEVICE_ID

GPUAlltoallEnabled(param_manager, device, response) == device # CPU_DEVICE_ID

\* the arguments of Enabled: a parameter manager, the device of entries[0], a response
ParamManagers == {"tuning", "tuned"}
Responses == {"ALLREDUCE", "ALLGATHER", "ERROR"}
EnabledDevices == {CPU_DEVICE_ID} \cup Devices

\* what the model keeps of a call of Enabled
EnabledCall(variant, param_manager, device, response, result) ==
  [variant |-> variant, param_manager |-> param_manager,
   device |-> device, response |-> response, result |-> result]

\* the engine's state, which Enabled does not touch
engine == <<gvars, streams, created, event_queue, stream, pc, batches, host_buffer,
           new_stream, threads, dvars, tvars, ret>>

CallGPUAllreduceEnabled ==
  \E p \in ParamManagers : \E d \in EnabledDevices : \E r \in Responses :
    /\ enabled' = EnabledCall("GPUAllreduce", p, d, r, GPUAllreduceEnabled(p, d, r))
    /\ UNCHANGED <<engine, kernels, yvars>>

CallGPUAllgatherEnabled ==
  \E p \in ParamManagers : \E d \in EnabledDevices : \E r \in Responses :
    /\ enabled' = EnabledCall("GPUAllgather", p, d, r, GPUAllgatherEnabled(p, d, r))
    /\ UNCHANGED <<engine, kernels, yvars>>

CallGPUBroadcastEnabled ==
  \E p \in ParamManagers : \E d \in EnabledDevices : \E r \in Responses :
    /\ enabled' = EnabledCall("GPUBroadcast", p, d, r, GPUBroadcastEnabled(p, d, r))
    /\ UNCHANGED <<engine, kernels, yvars>>

CallGPUAlltoallEnabled ==
  \E p \in ParamManagers : \E d \in EnabledDevices : \E r \in Responses :
    /\ enabled' = EnabledCall("GPUAlltoall", p, d, r, GPUAlltoallEnabled(p, d, r))
    /\ UNCHANGED <<engine, kernels, yvars>>

NextEnabled ==
  \/ CallGPUAllreduceEnabled
  \/ CallGPUAllgatherEnabled
  \/ CallGPUBroadcastEnabled
  \/ CallGPUAlltoallEnabled

\* the engine asking each variant whether it takes a batch
SpecEnabled == InitCaller /\ [][NextEnabled]_vars

\* ------------------------------------------------- the adapter's kernels

\* the types of an engine status
EngineStatuses ==
  {"OK", "UNKNOWN_ERROR", "PRECONDITION_ERROR", "ABORTED", "INVALID_ARGUMENT", "IN_PROGRESS"}

\* ConvertStatus(const common::Status&) (89-104): the framework code of an engine status
ConvertStatusDefault(type) == IF type = "OK" THEN "OK" ELSE "UNKNOWN"

ConvertStatus(type) ==
  CASE type = "OK" -> "OK"
    [] type = "UNKNOWN_ERROR" -> "UNKNOWN"
    [] type = "PRECONDITION_ERROR" -> "FAILED_PRECONDITION"
    [] type = "ABORTED" -> "ABORTED"
    [] type = "INVALID_ARGUMENT" -> "INVALID_ARGUMENT"
    [] OTHER -> "UNKNOWN"

\* common::CheckInitialized: an error status until the engine was initialized
CheckInitialized(initialized) == IF initialized THEN "OK" ELSE "PRECONDITION_ERROR"

\* OP_REQUIRES_OK_ASYNC(context, status, done): true when it sets the context's status
\* to the failed status, calls done and returns from ComputeAsync
OpRequiresOkAsyncNever(status) == FALSE

OpRequiresOkAsync(status) == status # "OK"

\* a kernel invocation at its first statement: the outputs allocated, the ready
\* events recorded, the enqueue calls made, the calls of done, the status set on the
\* context, and whether the engine holds the completion callback
NoKernel(op, initialized) ==
  [op |-> op, initialized |-> initialized, allocs |-> 0, ready |-> 0, enqueues |-> 0,
   done |-> 0, status |-> "OK", pending |-> FALSE, fired |-> 0]

\* ComputeAsync of a kernel, from its first statement to its return. allocates: the
\* kernel allocates its output before the enqueue call; alloc_status: the status of
\* allocate_output; enqueue_result: the engine status the enqueue call returns, the
\* engine keeping the completion callback when it is OK.
ComputeAsync(op, allocates, initialized, alloc_status, enqueue_result) ==
  LET start == NoKernel(op, initialized)
      allocated == [start EXCEPT !.allocs = IF allocates THEN 1 ELSE 0]
      enqueued == [allocated EXCEPT !.ready = 1, !.enqueues = 1,
                                    !.pending = (enqueue_result = "OK")]
  IN IF OpRequiresOkAsync(ConvertStatus(CheckInitialized(initialized)))
       THEN [start EXCEPT !.status = ConvertStatus(CheckInitialized(initialized)),
                          !.done = 1]
     ELSE IF allocates /\ OpRequiresOkAsync(alloc_status)
       THEN [allocated EXCEPT !.status = alloc_status, !.done = 1]
     ELSE IF OpRequiresOkAsync(ConvertStatus(enqueue_result))
       THEN [enqueued EXCEPT !.status = ConvertStatus(enqueue_result), !.done = 1]
     ELSE enqueued

\* the framework statuses of allocate_output
AllocStatuses == {"OK", "RESOURCE_EXHAUSTED"}

\* the engine statuses an enqueue call returns: accepted, shut down, duplicate name
EnqueueResults == {"OK", "PRECONDITION_ERROR", "INVALID_ARGUMENT"}

\* the engine statuses a completion callback is called with
CallbackStatuses == {"OK", "UNKNOWN_ERROR", "ABORTED"}

HorovodAllreduceOpComputeAsync ==
  \E initialized \in BOOLEAN : \E a \in AllocStatuses : \E r \in EnqueueResults :
    /\ Len(kernels) < MaxKernels
    /\ kernels' = Append(kernels, ComputeAsync("allreduce", TRUE, initialized, a, r))
    /\ UNCHANGED <<engine, enabled, yvars>>

HorovodAllgatherOpComputeAsync ==
  \E initialized \in BOOLEAN : \E r \in EnqueueResults :
    /\ Len(kernels) < MaxKernels
    /\ kernels' = Append(kernels, ComputeAsync("allgather", FALSE, initialized, "OK", r))
    /\ UNCHANGED <<engine, enabled, yvars>>

\* the root rank hands its input on as output (546-547), the others allocate one
HorovodBroadcastOpComputeAsync ==
  \E initialized \in BOOLEAN : \E is_root \in BOOLEAN :
  \E a \in AllocStatuses : \E r \in EnqueueResults :
    /\ Len(kernels) < MaxKernels
    /\ kernels' = Append(kernels, ComputeAsync("broadcast", ~is_root, initialized, a, r))
    /\ UNCHANGED <<engine, enabled, yvars>>

HorovodJoinOpComputeAsync ==
  \E initialized \in BOOLEAN : \E r \in EnqueueResults :
    /\ Len(kernels) < MaxKernels
    /\ kernels' = Append(kernels, ComputeAsync("join", FALSE, initialized, "OK", r))
    /\ UNCHANGED <<engine, enabled, yvars>>

HorovodAlltoallOpComputeAsync ==
  \E initialized \in BOOLEAN : \E r \in EnqueueResults :
    /\ Len(kernels) < MaxKernels
    /\ kernels' = Append(kernels, ComputeAsync("alltoall", FALSE, initialized, "OK", r))
    /\ UNCHANGED <<engine, enabled, yvars>>

\* the engine calls the completion callback it holds for invocation k: the lambda
\* sets the context's status and calls done (406-409)
CompletionCallback(k, status) ==
  /\ k \in 1..Len(kernels)
  /\ kernels[k].pending
  /\ kernels' = [kernels EXCEPT ![k].pending = FALSE,
                                ![k].fired = @ + 1,
                                ![k].status = ConvertStatus(status),
                                ![k].done = @ + 1]
  /\ UNCHANGED <<engine, enabled, yvars>>

NextAdapter ==
  \/ HorovodAllreduceOpComputeAsync
  \/ HorovodAllgatherOpComputeAsync
  \/ HorovodBroadcastOpComputeAsync
  \/ HorovodJoinOpComputeAsync
  \/ HorovodAlltoallOpComputeAsync
  \/ \E k \in 1..MaxKernels : \E status \in CallbackStatuses : CompletionCallback(k, status)

\* the framework running the kernels and the engine completing what it accepted
SpecAdapter == Init /\ [][NextAdapter]_vars


\* ------------------------------------------- the bytes the staging copies move

\* the values of a byte of tensor data; 0 is what buffers and outputs hold before
Bytes == {1, 2}
Stale == 0

\* the fusion buffer has room for the largest batch
BufferBytes == MaxEntries * MaxTensorBytes

\* the data of a tensor: size() bytes
Tensors == UNION {[1..k -> Bytes] : k \in 1..MaxTensorBytes}

\* memory of n bytes before anything was copied into it
Fresh(n) == [i \in 1..n |-> Stale]

\* gpu_context_->MemcpyAsyncD2D(dst + dst_at, src + src_at, count, stream) once the
\* stream has executed it: dst with count bytes of src stored from dst_at on
MemcpyAsyncD2D(dst, dst_at, src, src_at, count) ==
  [i \in 1..Len(dst) |-> IF i - dst_at \in 1..count THEN src[src_at + (i - dst_at)] ELSE dst[i]]

\* GPUAllreduce::MemcpyEntryInFusionBuffer (142-147), buffer_data_at_offset = buffer + at
GPUAllreduceMemcpyIn(buffer, at, tensor) == MemcpyAsyncD2D(buffer, at, tensor, 0, Len(tensor))

\* GPUAllreduce::MemcpyEntryOutFusionBuffer (149-154): e.tensor->size() bytes to e.output
GPUAllreduceMemcpyOutFromStart(output, buffer, at, tensor) ==
  MemcpyAsyncD2D(output, 0, buffer, 0, Len(tensor))

GPUAllreduceMemcpyOut(output, buffer, at, tensor) ==
  MemcpyAsyncD2D(output, 0, buffer, at, Len(tensor))

\* GPUAllgather::MemcpyEntryInFusionBuffer (172-177)
GPUAllgatherMemcpyIn(buffer, at, tensor) == MemcpyAsyncD2D(buffer, at, tensor, 0, Len(tensor))

\* GPUAllgather::MemcpyEntryOutFusionBuffer (179-185): entry_size bytes to
\* e.output + entry_offset
GPUAllgatherMemcpyOut(output, buffer, at, entry_offset, entry_size) ==
  MemcpyAsyncD2D(output, entry_offset, buffer, at, entry_size)

\* where an entry's bytes go in its output: at its start for an allreduce, at the
\* entry's place in the gathered output for an allgather
EntryOffsets(variant) == IF variant = "GPUAllgather" THEN 0..1 ELSE {0}

\* A fused batch of n entries before its copies: the variant, the entries' tensors,
\* the offset of each entry in the fusion buffer (overlapping or not), entry_offset,
\* the buffer and the outputs, and the number of copies in and out the stream has
\* executed.
StagingInputsOf(v, n) ==
  {[variant |-> v, n |-> n, tensor |-> t, at |-> a, entry_offset |-> o,
    buffer |-> Fresh(BufferBytes),
    output |-> [e \in 1..n |-> Fresh(Len(t[e]) + (IF v = "GPUAllgather" THEN 1 ELSE 0))],
    ins |-> 0, outs |-> 0] :
     t \in [1..n -> Tensors], a \in [1..n -> 0..(BufferBytes - 1)],
     o \in [1..n -> EntryOffsets(v)]}

StagingInputs ==
  UNION {StagingInputsOf(v, n) : v \in {"GPUAllreduce", "GPUAllgather"}, n \in 1..MaxEntries}

\* every entry lies inside the buffer
WellFormed(in) == \A e \in 1..in.n : in.at[e] + Len(in.tensor[e]) <= BufferBytes

InitStaging ==
  /\ InitEngine(EngineTables)
  /\ staging \in {in \in StagingInputs : WellFormed(in)}

\* the stream executes the copy of the next entry into the fusion buffer
GPUAllreduceCopyIn ==
  /\ staging.variant = "GPUAllreduce"
  /\ staging.ins < staging.n
  /\ LET e == staging.ins + 1
     IN staging' = [staging EXCEPT
          !.buffer = GPUAllreduceMemcpyIn(@, staging.at[e], staging.tensor[e]),
          !.ins = e]
  /\ UNCHANGED <<engine, enabled, kernels, allocation, converted>>

GPUAllgatherCopyIn ==
  /\ staging.variant = "GPUAllgather"
  /\ staging.ins < staging.n
  /\ LET e == staging.ins + 1
     IN staging' = [staging EXCEPT
          !.buffer = GPUAllgatherMemcpyIn(@, staging.at[e], staging.tensor[e]),
          !.ins = e]
  /\ UNCHANGED <<engine, enabled, kernels, allocation, converted>>

\* the stream executes the copy of the next entry out of the fusion buffer; the
\* copies are on one stream, behind the copies in
GPUAllreduceCopyOut ==
  /\ staging.variant = "GPUAllreduce"
  /\ staging.ins = staging.n /\ staging.outs < staging.n
  /\ LET e == staging.outs + 1
     IN staging' = [staging EXCEPT
          !.output[e] = GPUAllreduceMemcpyOut(@, staging.buffer, staging.at[e],
                                              staging.tensor[e]),
          !.outs = e]
  /\ UNCHANGED <<engine, enabled, kernels, allocation, converted>>

GPUAllgatherCopyOut ==
  /\ staging.variant = "GPUAllgather"
  /\ staging.ins = staging.n /\ staging.outs < staging.n
  /\ LET e == staging.outs + 1
     IN staging' = [staging EXCEPT
          !.output[e] = GPUAllgatherMemcpyOut(@, staging.buffer, staging.at[e],
                                              staging.entry_offset[e],
                                              Len(staging.tensor[e])),
          !.outs = e]
  /\ UNCHANGED <<engine, enabled, kernels, allocation, converted>>

NextStaging ==
  \/ GPUAllreduceCopyIn
  \/ GPUAllgatherCopyIn
  \/ GPUAllreduceCopyOut
  \/ GPUAllgatherCopyOut

\* a fused batch copied into the fusion buffer and out of it, nothing in between
SpecStaging == InitStaging /\ [][NextStaging]_vars


\* ------------------------------------------- status conversion at the boundary

\* the codes of a framework status
FrameworkCodes ==
  {"OK", "CANCELLED", "UNKNOWN", "INVALID_ARGUMENT", "DEADLINE_EXCEEDED", "NOT_FOUND",
   "ALREADY_EXISTS", "PERMISSION_DENIED", "UNAUTHENTICATED", "RESOURCE_EXHAUSTED",
   "FAILED_PRECONDITION", "ABORTED", "OUT_OF_RANGE", "UNIMPLEMENTED", "INTERNAL",
   "UNAVAILABLE", "DATA_LOSS"}

\* ConvertStatus(const Status&) (106-121): the engine type of a framework status
ConvertStatusFromFrameworkSwapped(code) ==
  CASE code = "OK" -> "OK"
    [] code = "UNKNOWN" -> "UNKNOWN_ERROR"
    [] code = "FAILED_PRECONDITION" -> "ABORTED"
    [] code = "ABORTED" -> "PRECONDITION_ERROR"
    [] code = "INVALID_ARGUMENT" -> "INVALID_ARGUMENT"
    [] OTHER -> "UNKNOWN_ERROR"

ConvertStatusFromFrameworkLenient(code) ==
  CASE code = "OK" -> "OK"
    [] code = "UNKNOWN" -> "UNKNOWN_ERROR"
    [] code = "FAILED_PRECONDITION" -> "PRECONDITION_ERROR"
    [] code = "ABORTED" -> "ABORTED"
    [] code = "INVALID_ARGUMENT" -> "INVALID_ARGUMENT"
    [] OTHER -> "OK"

ConvertStatusFromFramework(code) ==
  CASE code = "OK" -> "OK"
    [] code = "UNKNOWN" -> "UNKNOWN_ERROR"
    [] code = "FAILED_PRECONDITION" -> "PRECONDITION_ERROR"
    [] code = "ABORTED" -> "ABORTED"
    [] code = "INVALID_ARGUMENT" -> "INVALID_ARGUMENT"
    [] OTHER -> "UNKNOWN_ERROR"

\* an engine status is converted for the framework; back is the result converted again
ConvertToFramework ==
  \E type \in EngineStatuses :
    /\ converted' = [variant |-> "toFramework", arg |-> type, result |-> ConvertStatus(type),
                     back |-> ConvertStatusFromFramework(ConvertStatus(type))]
    /\ UNCHANGED <<engine, enabled, kernels, staging, allocation>>

\* a framework status is converted for the engine; back is the result converted again
ConvertFromFramework ==
  \E code \in FrameworkCodes :
    /\ converted' = [variant |-> "fromFramework", arg |-> code,
                     result |-> ConvertStatusFromFramework(code),
                     back |-> ConvertStatus(ConvertStatusFromFramework(code))]
    /\ UNCHANGED <<engine, enabled, kernels, staging, allocation>>

NextConvert ==
  \/ ConvertToFramework
  \/ ConvertFromFramework

\* the adapter converting statuses in both directions
SpecConvert == InitCaller /\ [][NextConvert]_vars

\* ------------------------------------------- allocation through TFOpContext

\* the constructor of TFPersistentBuffer throws the status of allocate_temp when it
\* is not ok (196-199)
TFPersistentBufferThrows(code) == code # "OK"

\* GetTFDataType throws std::logic_error for a type it does not know (84-85)
GetTFDataTypeThrows(valid_dtype) == ~valid_dtype

\* what the handler of AllocatePersistent catches (270): a framework Status
Caught(exception) == exception = "Status"

\* what the model keeps of an allocation call: the code of the framework's status
\* (attempted: the framework allocation was called), the type of the engine status
\* returned, whether *tensor was assigned and whether an exception left the call
AllocationCall(variant, code, attempted, status, assigned, escaped) ==
  [variant |-> variant, code |-> code, attempted |-> attempted, status |-> status,
   assigned |-> assigned, escaped |-> escaped]

\* TFOpContext::AllocatePersistent (265-273)
AllocatePersistent(code) ==
  IF TFPersistentBufferThrows(code)
    THEN IF Caught("Status")
           THEN AllocationCall("AllocatePersistent", code, TRUE,
                               ConvertStatusFromFramework(code), FALSE, FALSE)
           ELSE AllocationCall("AllocatePersistent", code, TRUE, "none", FALSE, TRUE)
    ELSE AllocationCall("AllocatePersistent", code, TRUE, "OK", TRUE, FALSE)

\* TFOpContext::AllocateOutput (275-296)
AllocateOutput(code) ==
  AllocationCall("AllocateOutput", code, TRUE, ConvertStatusFromFramework(code),
                 code = "OK", FALSE)

\* TFOpContext::AllocateZeros (300-341): the zeroing of 317-327 acts on the bytes
\* of zero_tensor, none when allocate_temp failed
AllocateZeros(code, valid_dtype) ==
  IF GetTFDataTypeThrows(valid_dtype)
    THEN AllocationCall("AllocateZeros", "none", FALSE, "none", FALSE, TRUE)
    ELSE AllocationCall("AllocateZeros", code, TRUE, ConvertStatusFromFramework(code),
                        code = "OK", FALSE)

CallAllocatePersistent ==
  \E code \in FrameworkCodes :
    /\ allocation' = AllocatePersistent(code)
    /\ UNCHANGED <<engine, enabled, kernels, staging, converted>>

CallAllocateOutput ==
  \E code \in FrameworkCodes :
    /\ allocation' = AllocateOutput(code)
    /\ UNCHANGED <<engine, enabled, kernels, staging, converted>>

CallAllocateZeros ==
  \E code \in FrameworkCodes : \E valid_dtype \in BOOLEAN :
    /\ allocation' = AllocateZeros(code, valid_dtype)
    /\ UNCHANGED <<engine, enabled, kernels, staging, converted>>

NextAllocate ==
  \/ CallAllocatePersistent
  \/ CallAllocateOutput
  \/ CallAllocateZeros

\* the engine allocating through the framework, the framework answering with any code
SpecAllocate == InitCaller /\ [][NextAllocate]_vars

\* ------------------------------------------------------------- properties

Submitted(b) == tasks[b].state # "none"
Live(b) == tasks[b].state \in {"queued", "wait", "cb"}
HasCallback(b, e) == Submitted(b) /\ e <= tasks[b].n /\ tasks[b].callback[e]
Fired(b) == \E e \in 1..MaxEntries : cbCount[b][e] > 0

\* device work enqueued so far: what the streams hold and what has completed
Executing(item) == \E h \in DOMAIN devq : devq[h] # <<>> /\ Head(devq[h]) = item
Started(item) == item \in done \/ Executing(item)
QueuedItems == UNION {{devq[h][k] : k \in 1..Len(devq[h])} : h \in DOMAIN devq}
Work(b, kinds) == {w \in QueuedItems \cup done : w.b = b /\ w.k \in kinds}
Outstanding(b) == {w \in QueuedItems : w.b = b /\ w.k # "event"}
Copies == {"copyin", "copyout", "scale"}
Writes == {"copyin", "scale", "collective"}

\* C1: every entry of a finalized batch that has a callback has it invoked exactly
\* once: never twice, never before FinalizeGPUQueue was invoked for the batch, and
\* once when the batch's finalization task has ended, with any number of tasks
\* running concurrently on the pool.
C1_CallbackExactlyOnce ==
  \A b \in BatchIds : \A e \in 1..MaxEntries :
    /\ cbCount[b][e] <= 1
    /\ cbCount[b][e] > 0 => ret[b] # "none" /\ HasCallback(b, e)
    /\ tasks[b].state = "done" /\ HasCallback(b, e) => cbCount[b][e] = 1

\* two tasks are in their callback loops at once, one of them past its first callback
C1_Witness ==
  \E b \in BatchIds : \E c \in BatchIds \ {b} :
    /\ tasks[b].state = "cb" /\ cbCount[b][1] = 1
    /\ tasks[c].state = "cb" /\ tasks[c].n = MaxEntries

\* C2: when a hardware error was reported while the task waited on the batch's
\* events, every callback of the batch receives a failure status, never success.
C2_FailurePropagated ==
  \A b \in BatchIds : \A e \in 1..MaxEntries :
    Submitted(b) /\ tasks[b].err /\ cbCount[b][e] > 0 => cbStatus[b][e] # "OK"

\* the batch's device work all went to streams that had been created
OnCreatedStreams(b) == \A w \in Work(b, Copies \cup {"collective", "event"}) : w.h # NullStream

\* C3: when the first callback of a batch is invoked, all device work enqueued for
\* the batch (copies into the buffer, scale, transfer, copies out) has completed.
\* Stated for the batches no hardware error was reported for and whose device work
\* went to created streams.
C3_CallbacksAfterDeviceWork ==
  \A b \in BatchIds :
    Fired(b) /\ ~tasks[b].err /\ OnCreatedStreams(b) => Outstanding(b) = {}

\* C4: FinalizeGPUQueue returns the in-progress status and returns without having
\* waited: at its return the batch's task is queued, not started, and the completion
\* marker it has just recorded has not been reached by the device.
C4_FinalizeInProgress ==
  [][\A b \in BatchIds : ret'[b] # ret[b] =>
        /\ ret'[b] = "IN_PROGRESS"
        /\ tasks'[b].state = "queued"
        /\ \E k \in 1..Len(tasks'[b].evt_queue) : tasks'[b].evt_queue[k] \notin done']_vars

\* FinalizeGPUQueue has returned for a batch whose device work is still outstanding
C4_Witness ==
  \E b \in BatchIds :
    ret[b] = "IN_PROGRESS" /\ tasks[b].state = "queued" /\ Outstanding(b) # {}

AllCallbacksFired(b) ==
  tasks[b].state = "done" /\ \A e \in 1..MaxEntries : HasCallback(b, e) => cbCount[b][e] = 1

\* C5: with the device completing its streams and the pool's workers scheduled
\* fairly, every batch handed to FinalizeGPUQueue eventually has the callback of
\* each of its entries invoked, also when a hardware error was reported for it.
C5_EventuallyCallbacks ==
  \A b \in BatchIds : (ret[b] = "IN_PROGRESS") ~> AllCallbacksFired(b)

\* a batch of the largest size a hardware error was reported for has all callbacks in
C5_Witness ==
  \E b \in BatchIds :
    /\ AllCallbacksFired(b) /\ tasks[b].err
    /\ tasks[b].n = MaxEntries /\ cbCount[b][MaxEntries] = 1

Begun == 1..Len(batches)
Queued(k) == batches[k].gen # -1
ViaInitGPU(k) == batches[k].gpu_slot # -1
BatchStream(k) == <<batches[k].gen, batches[k].slot>>

\* C6: within one batch the transfer starts on the device only after every copy
\* into the fusion buffer has completed, and a copy out of the buffer starts only
\* after the transfer has completed. Stated for the batches whose device work went
\* to created streams.
C6_StagingOrder ==
  \A k \in Begun : OnCreatedStreams(k - 1) =>
    /\ \A c \in Work(k - 1, {"collective"}) : \A i \in Work(k - 1, {"copyin", "scale"}) :
         Started(c) => i \in done
    /\ \A o \in Work(k - 1, {"copyout"}) : \A c \in Work(k - 1, {"collective"}) :
         Started(o) => c \in done

\* C7: the copies into and out of the fusion buffer and the scaling are enqueued on
\* the stream of the (generation, slot) key InitGPUQueue selected for the batch.
C7_CopiesOnBatchStream ==
  \A k \in Begun : \A w \in Work(k - 1, Copies) : w.key = BatchStream(k)

\* the staging buffer of a batch: (device, framework, generation), one framework
StagingBuffer(k) == <<batches[k].device, batches[k].gen>>

\* C8: two batches that use the same staging buffer never write it concurrently: a
\* write of the later batch starts only after every write of the earlier one is done.
\* Stated for the batches whose device work went to created streams.
C8_StagingBufferSerialized ==
  \A j \in Begun : \A k \in Begun :
    /\ j < k /\ Queued(j) /\ Queued(k) /\ StagingBuffer(j) = StagingBuffer(k)
    /\ OnCreatedStreams(j - 1) /\ OnCreatedStreams(k - 1)
    =>
      \A w \in Work(k - 1, Writes) : \A v \in Work(j - 1, Writes) :
        Started(w) => v \in done

Holders(key) == {b \in BatchIds : Live(b) /\ tasks[b].fusion_buffer = key}

\* C9: the finalization task holds a reference to the staging buffer of the
\* generation the batch executed on (the index before FinalizeGPUQueue advances it)
\* from its submission until it ends, and drops it when it ends, fault or not: the
\* references held on a buffer are exactly those of the tasks that have not ended.
C9_FusionBufferHeld ==
  /\ \A b \in BatchIds : Submitted(b) => tasks[b].fusion_buffer = StagingBuffer(b + 1)
  /\ \A d \in Devices : \A g \in Gens : fusion_refs[d, g] = Cardinality(Holders(<<d, g>>))

\* a task a hardware error was reported for has ended and dropped its reference,
\* while the task of the next generation still holds the reference to its buffer
C9_Witness ==
  \E b \in BatchIds : \E c \in BatchIds :
    /\ tasks[b].state = "done" /\ tasks[b].err
    /\ fusion_refs[tasks[b].fusion_buffer[1], tasks[b].fusion_buffer[2]] = 0
    /\ Live(c) /\ tasks[c].fusion_buffer[2] = 1
    /\ fusion_refs[tasks[c].fusion_buffer[1], tasks[c].fusion_buffer[2]] = 1

\* the slot the batch's flags select, the dedicated slot first
SlotFlagFirst(k) ==
  IF batches[k].is_para THEN DedicatedSlot
  ELSE IF batches[k].is_allreduce THEN stream_assignment[batches[k].ptr + 1]
  ELSE batches[k].device

\* the slot the batch's flags select, the dedicated slot for reductions only
SlotReductionFirst(k) ==
  IF batches[k].is_allreduce
    THEN (IF batches[k].is_para THEN DedicatedSlot
          ELSE stream_assignment[batches[k].ptr + 1])
    ELSE batches[k].device

\* C10 as claimed: InitGPU and InitGPUQueue select the dedicated slot whenever the
\* dedicated-slot flag is set, else the table's slot at the pointer for a reduction,
\* else the device of the first entry.
C10_SlotSelectionClaimed ==
  \A k \in Begun :
    /\ ViaInitGPU(k) => batches[k].gpu_slot = SlotFlagFirst(k)
    /\ Queued(k) => batches[k].slot = SlotFlagFirst(k)

\* C10 amended: InitGPU and InitGPUQueue select, for a reduction, the dedicated slot
\* when the dedicated-slot flag is set and the table's slot at the pointer otherwise;
\* for any other batch the device of the first entry, whatever the flag.
C10_SlotSelection ==
  \A k \in Begun :
    /\ ViaInitGPU(k) => batches[k].gpu_slot = SlotReductionFirst(k)
    /\ Queued(k) => batches[k].slot = SlotReductionFirst(k)

\* batches of each of the three cases have been through InitGPUQueue, one of them a
\* batch with the dedicated-slot flag that is no reduction and runs on its device's slot
C10_Witness ==
  /\ \E k \in Begun : /\ Queued(k) /\ batches[k].is_para /\ ~batches[k].is_allreduce
                      /\ ViaInitGPU(k) /\ batches[k].gpu_slot = batches[k].device
                      /\ batches[k].slot = batches[k].device
  /\ \E k \in Begun : /\ Queued(k) /\ batches[k].is_allreduce
                      /\ batches[k].slot \in {DedicatedSlot, stream_assignment[batches[k].ptr + 1]}
                      /\ batches[k].slot # batches[k].device

\* the begin operations of batch k have returned
BeginOver(k) == k < Len(batches) \/ pc # "InitGPUQueue"

\* the rotating pointer when the begin operations of batch k had returned
PtrAfter(k) == IF k < Len(batches) THEN batches[k + 1].ptr ELSE current_gpu_stream

TableLen == Len(stream_assignment)

\* C11 as claimed: every reduction batch that has begun has advanced the rotating
\* pointer by exactly one modulo the table's size, whether it began with InitGPU,
\* with InitGPUQueue or with both.
C11_PointerAdvancedClaimed ==
  \A k \in Begun :
    batches[k].is_allreduce /\ BeginOver(k)
      => PtrAfter(k) = (batches[k].ptr + 1) % TableLen

\* C11 amended: a reduction batch InitGPUQueue was called for, alone or after
\* InitGPU, has advanced the rotating pointer by exactly one modulo the table's
\* size, whatever its number of entries; InitGPU does not advance the pointer, so
\* a batch begun with InitGPU alone, like a batch that is no reduction, leaves it
\* where it was.
C11_PointerAdvanced ==
  \A k \in Begun :
    BeginOver(k) =>
      PtrAfter(k) = IF batches[k].is_allreduce /\ Queued(k)
                      THEN (batches[k].ptr + 1) % TableLen
                      ELSE batches[k].ptr

\* a reduction batch begun with InitGPU alone has left the pointer of a table of
\* several slots where it was, and a reduction batch of the largest size begun with
\* InitGPUQueue alone has advanced it
C11_Witness ==
  /\ TableLen > 1
  /\ \E j \in Begun : /\ batches[j].is_allreduce /\ BeginOver(j) /\ ~Queued(j)
                      /\ PtrAfter(j) = batches[j].ptr
  /\ \E k \in Begun : /\ batches[k].is_allreduce /\ Queued(k) /\ ~ViaInitGPU(k)
                      /\ batches[k].n = MaxEntries
                      /\ PtrAfter(k) = (batches[k].ptr + 1) % TableLen

\* the reduction batches before batch k that went through InitGPUQueue
Rotations(k) ==
  Cardinality({j \in 1..(k - 1) : batches[j].is_allreduce /\ Queued(j)})

InBatch == pc \in {"MemcpyIn", "Scale", "Collective", "MemcpyOut", "Finalize"}

\* C13: a step changes the generation index only if it is FinalizeGPUQueue, which
\* advances it by exactly one modulo the number of generations, the task having been
\* submitted with the buffer of the generation before the advance; the index stays
\* in 0..num_nccl_streams-1 and, from a batch's InitGPUQueue to its FinalizeGPUQueue,
\* is the generation InitGPUQueue selected the batch's stream with.
C13_GenerationAdvance ==
  [][/\ current_nccl_stream' \in 0..(num_nccl_streams - 1)
     /\ InBatch => batches[Len(batches)].gen = current_nccl_stream
     /\ IF \E b \in BatchIds : ret'[b] # ret[b]
          THEN /\ current_nccl_stream' = (current_nccl_stream + 1) % num_nccl_streams
               /\ \A b \in BatchIds : ret'[b] # ret[b] =>
                     /\ tasks'[b].state = "queued"
                     /\ tasks'[b].fusion_buffer[2] = current_nccl_stream
          ELSE current_nccl_stream' = current_nccl_stream]_vars

\* with two generations, two batches were finalized, InitNewStream was called, and
\* the generation index has wrapped
C13_Witness ==
  /\ num_nccl_streams = MaxNcclStreams
  /\ \A b \in BatchIds : ret[b] = "IN_PROGRESS"
  /\ tasks[0].fusion_buffer[2] = 0 /\ tasks[1].fusion_buffer[2] = 1
  /\ new_stream # NoStream
  /\ current_nccl_stream = 0

\* C14: a stream handle created for a (generation, slot) key is never replaced nor
\* cleared by a later InitGPU, InitGPUQueue, InitNewStream or FinalizeGPUQueue; a
\* stream is created only for a key whose entry was empty, so every later lookup of
\* the key observes the handle created first.
C14_StreamTableStable ==
  [][/\ \A key \in DOMAIN streams :
          key \in DOMAIN streams' /\ streams'[key] = streams[key]
     /\ created' # created =>
          /\ Len(created') = Len(created) + 1
          /\ \E key \in DOMAIN streams' \ DOMAIN streams :
                DOMAIN streams' = DOMAIN streams \cup {key}]_vars

\* two batches looked the same key up with InitGPU, one stream was created, and
\* InitNewStream has pointed new_stream at that entry
C14_Witness ==
  /\ num_nccl_streams = 1 /\ Len(batches) = MaxBatches
  /\ \A k \in Begun : ViaInitGPU(k) /\ batches[k].gpu_slot = batches[1].gpu_slot
  /\ Len(created) = 1
  /\ new_stream \in DOMAIN streams

\* the streams created for key so far
CreatedFor(key) == {i \in 1..Len(created) : created[i] = key}

\* no thread is between its test of key's entry, found null, and its StreamCreate
Settled(key) ==
  \A t \in Threads :
    ~(threads[t].pc = "checked" /\ threads[t].key = key /\ threads[t].h = NullStream)

\* C15: when two threads look a key up for the first time concurrently, at most
\* two streams are created for the key, one of them an extra that is discarded; the
\* entry holds the stream created last, a thread that has returned from InitGPU
\* leaves a stream in the entry of its key, and once no thread is left between its
\* test and its creation the entry keeps its handle for every later lookup.
C15_ConcurrentFirstLookup ==
  [][/\ \A t \in Threads :
          threads'[t].pc = "idle" /\ threads'[t].calls > 0 =>
            threads'[t].key \in DOMAIN streams'
     /\ \A key \in DOMAIN streams' :
          /\ Cardinality(CreatedFor(key)') \in 1..2
          /\ \A i \in CreatedFor(key)' : streams'[key] >= i
          /\ \E i \in CreatedFor(key)' : streams'[key] = i
          /\ key \in DOMAIN streams /\ Settled(key) =>
               Settled(key)' /\ streams'[key] = streams[key]]_vars

\* both threads found the entry of the same key null and each created a stream; the
\* first stream was discarded, and a later lookup of the key has read the second
C15_Witness ==
  \E key \in DOMAIN streams :
    /\ Cardinality(CreatedFor(key)) = 2
    /\ Settled(key)
    /\ \E t \in Threads :
         /\ threads[t].pc = "checked" /\ threads[t].key = key /\ threads[t].calls = 2
         /\ threads[t].h = streams[key] /\ threads[t].h = Len(created)

\* the task of batch b has passed the release of the host buffer (113-115)
PastFree(b) == tasks[b].state \in {"cb", "done"}

\* the host buffer allocated for batch b: buffers are named after their batch
BufferOf(b) == b + 1

\* C16: the finalization task of a batch releases the host buffer if and only if one
\* was allocated for this batch and free_host_buffer was requested; no buffer is
\* released twice, and no task releases a buffer allocated for an earlier batch.
C16_HostBufferReleased ==
  /\ \A i \in 1..Len(freed) : \A j \in 1..Len(freed) : i # j => freed[i] # freed[j]
  /\ \A b \in BatchIds : PastFree(b) =>
       /\ (\E i \in 1..Len(freed) : freed[i] = BufferOf(b))
            <=> (tasks[b].free_host_buffer /\ tasks[b].cpu_buffer = BufferOf(b))
       /\ tasks[b].free_host_buffer => tasks[b].cpu_buffer \in {0, BufferOf(b)}

\* C17: a finalization task never calls a null callback, and the null callbacks of
\* a batch do not keep it from the others: when the task has ended, every entry
\* without a callback was skipped and every other entry of the batch had its
\* callback invoked exactly once.
C17_NullCallbackTolerated ==
  \A b \in BatchIds : Submitted(b) =>
    \A e \in 1..tasks[b].n :
      /\ ~tasks[b].callback[e] => cbCount[b][e] = 0
      /\ tasks[b].state = "done" =>
           cbCount[b][e] = (IF tasks[b].callback[e] THEN 1 ELSE 0)

\* the task of a batch whose first entry has no callback has ended; the entry after
\* it had its callback invoked
C17_Witness ==
  \E b \in BatchIds :
    /\ tasks[b].state = "done" /\ tasks[b].n = MaxEntries
    /\ ~tasks[b].callback[1] /\ cbCount[b][1] = 0
    /\ tasks[b].callback[MaxEntries] /\ cbCount[b][MaxEntries] = 1

\* C18: Enabled of GPUAllreduce, GPUAllgather, GPUBroadcast and GPUAlltoall returns
\* true if and only if the device of the batch's first entry is not CPU_DEVICE_ID,
\* whatever the parameter manager and the response.
C18_EnabledIffNotCpu ==
  enabled.variant \in {"GPUAllreduce", "GPUAllgather", "GPUBroadcast", "GPUAlltoall"} =>
    (enabled.result <=> enabled.device # -1)

\* GPUBroadcast was asked about a batch on the host and declined it
C18_Witness ==
  /\ enabled.variant = "GPUBroadcast"
  /\ enabled.device = CPU_DEVICE_ID /\ enabled.response = "ERROR"
  /\ ~enabled.result

Invocations == 1..Len(kernels)

\* C19: one ComputeAsync invocation of an adapter kernel calls done exactly once on
\* every path: never twice; once when it returned without the engine accepting
\* (engine not initialized, output allocation failed, enqueue rejected); and, when the
\* engine accepted, not before the completion callback and once when it has fired.
C19_DoneExactlyOnce ==
  \A k \in Invocations :
    /\ kernels[k].done <= 1
    /\ kernels[k].pending => kernels[k].done = 0
    /\ ~kernels[k].pending => kernels[k].done = 1
    /\ kernels[k].fired > 0 => kernels[k].enqueues = 1

\* a broadcast whose output allocation failed has called done without an enqueue
\* call, and a join the engine accepted has called done from its completion callback
C19_Witness ==
  /\ \E k \in Invocations :
       /\ kernels[k].op = "broadcast" /\ kernels[k].allocs = 1
       /\ kernels[k].enqueues = 0 /\ kernels[k].done = 1
  /\ \E k \in Invocations :
       /\ kernels[k].op = "join" /\ kernels[k].fired = 1 /\ kernels[k].done = 1
       /\ kernels[k].status = "ABORTED"

\* C20: a ComputeAsync invocation that finds the engine not initialized has rejected
\* synchronously before any other work: no output allocated, no ready event
\* recorded, no enqueue call, done called, and the status set on the context is the
\* failed-precondition status CheckInitialized's error converts to.
C20_UninitializedRejected ==
  \A k \in Invocations :
    ~kernels[k].initialized =>
      /\ kernels[k].allocs = 0 /\ kernels[k].ready = 0 /\ kernels[k].enqueues = 0
      /\ ~kernels[k].pending /\ kernels[k].fired = 0
      /\ kernels[k].done = 1
      /\ kernels[k].status = "FAILED_PRECONDITION"

\* an allreduce and an alltoall were both invoked before the engine was initialized
C20_Witness ==
  /\ \E k \in Invocations :
       kernels[k].op = "allreduce" /\ ~kernels[k].initialized /\ kernels[k].done = 1
  /\ \E k \in Invocations :
       kernels[k].op = "alltoall" /\ ~kernels[k].initialized /\ kernels[k].done = 1

\* the entries of batch b whose loop iteration the task has gone through
Ended(b) == {tasks[b].log[p].e : p \in 1..Len(tasks[b].log)}

\* C23: the finalization task of a batch goes through the entries in batch order:
\* what it does for an entry (end of its timeline activity, then its callback) comes
\* before what it does for any later entry, the end of an entry's timeline activity
\* comes before that entry's own callback, and when the task has ended every entry
\* had its activity ended and every entry with a callback had it called.
C23_BatchOrder ==
  \A b \in BatchIds : Submitted(b) =>
    LET log == tasks[b].log
    IN /\ \A p \in 1..Len(log) : \A q \in 1..Len(log) : p < q =>
            \/ log[p].e < log[q].e
            \/ log[p].e = log[q].e /\ log[p].k = "End" /\ log[q].k = "callback"
       /\ \A q \in 1..Len(log) : log[q].k = "callback" =>
            /\ q > 1 /\ log[q - 1] = TimelineEnd(log[q].e)
            /\ tasks[b].callback[log[q].e]
       /\ tasks[b].state = "done" =>
            /\ Ended(b) = 1..tasks[b].n
            /\ \A e \in 1..tasks[b].n :
                 tasks[b].callback[e] => \E q \in 1..Len(log) : log[q] = Callback(e)

\* the task of the second batch has gone through both of its entries while the task
\* of the first batch is between its first and its second entry
C23_Witness ==
  /\ MaxBatches >= 2
  /\ tasks[1].state = "done" /\ tasks[1].n = 2
  /\ tasks[1].log = <<TimelineEnd(1), Callback(1), TimelineEnd(2), Callback(2)>>
  /\ tasks[0].state = "cb" /\ tasks[0].n = 2
  /\ tasks[0].log = <<TimelineEnd(1), Callback(1)>>

\* C24: the event queue handed to the finalization task of a batch holds exactly one
\* marker with the empty name and it is the last one; it holds a QUEUE marker, in
\* front, if and only if the timeline was initialized when InitGPUQueue ran; and it
\* holds no marker recorded for another batch.
C24_QueueHandedOver ==
  \A b \in BatchIds : Submitted(b) =>
    LET q == tasks[b].evt_queue
    IN /\ Len(q) >= 1
       /\ \A k \in 1..Len(q) : (q[k].name = "") <=> (k = Len(q))
       /\ \A k \in 1..Len(q) : (q[k].name = "QUEUE") <=> (timeline /\ k = 1 /\ Len(q) = 2)
       /\ timeline => Len(q) = 2
       /\ \A k \in 1..Len(q) : q[k].b = b /\ q[k].k = "event"

\* with the timeline on, the second batch was handed off after the first: its task
\* holds the two markers of its own batch
C24_Witness ==
  /\ timeline /\ Submitted(0) /\ Submitted(1)
  /\ Len(tasks[1].evt_queue) = 2
  /\ tasks[1].evt_queue[1].name = "QUEUE" /\ tasks[1].evt_queue[1].b = 1
  /\ tasks[1].evt_queue[2].name = "" /\ tasks[1].evt_queue[2].b = 1

\* the task of batch b has not come back from WaitForEvents
Waiting(b) == tasks[b].state \in {"queued", "wait"}

\* the events of queue q
Events(q) == {q[k] : k \in 1..Len(q)}

\* C25: the event queue of a batch is consumed by exactly one task, which works on
\* its own copy: no event is waited on by the tasks of two batches, and no step,
\* the next batch's InitGPUQueue resetting the context's queue and recording into
\* it included, changes the events a task still waits on.
C25_TaskOwnsItsQueue ==
  [][/\ \A b \in BatchIds : \A c \in BatchIds :
          (b # c /\ Submitted(b) /\ Submitted(c)) =>
            Events(WaitedEvents(b)) \cap Events(WaitedEvents(c)) = {}
     /\ \A b \in BatchIds :
          (Waiting(b) /\ tasks'[b].state \in {"queued", "wait"}) =>
            WaitedEvents(b)' = WaitedEvents(b)]_vars

\* the first batch's task still waits while InitGPUQueue of the second batch has
\* reset the context's queue and recorded the second batch's QUEUE marker into it
C25_Witness ==
  /\ Waiting(0) /\ Len(batches) = 2
  /\ Len(event_queue) = 1 /\ event_queue[1].b = 1 /\ event_queue[1].name = "QUEUE"
  /\ Len(tasks[0].evt_queue) = 2 /\ tasks[0].evt_queue[1].b = 0

\* the step is InitGPUQueue returning for the latest batch
QueueStep == batches' # batches /\ batches'[Len(batches')].gen # -1

\* the step is InitGPU returning for a new batch
GPUStep == batches' # batches /\ batches'[Len(batches')].gen = -1

\* the step is FinalizeGPUQueue returning
FinalizeStep == ret' # ret

\* the batches InitGPUQueue has returned for
QueuedBatches == {k \in Begun : Queued(k)}

\* the latest of a non-empty set of batches
Latest(S) == CHOOSE k \in S : \A j \in S : j <= k

\* C26 as stated: after InitGPUQueue returned for a batch, the global stream_index
\* equals the slot selected for that batch, for every batch, reduction or not.
C26_StreamIndexRecordedClaimed ==
  QueuedBatches # {} => stream_index = batches[Latest(QueuedBatches)].slot

\* C26: when InitGPUQueue returns for a reduction batch, the global stream_index
\* equals the slot selected for that batch; when it returns for any other batch,
\* stream_index is what it was before the call.
C26_StreamIndexRecorded ==
  [][QueueStep =>
       LET e == batches'[Len(batches')]
       IN stream_index' = IF e.is_allreduce THEN e.slot ELSE stream_index]_vars

\* InitGPUQueue returned for a gather batch after a reduction batch: stream_index is
\* still the reduction batch's slot, which is not the gather batch's
C26_Witness ==
  /\ Len(batches) = 2 /\ Queued(1) /\ Queued(2)
  /\ batches[1].is_allreduce /\ ~batches[2].is_allreduce
  /\ stream_index = batches[1].slot /\ stream_index # batches[2].slot

\* C27: every stream on which a marker is recorded or device work is enqueued has
\* been created: the handle found in the stream table is not null, InitGPU having
\* been called with the same flags before InitGPUQueue for every batch.
C27_StreamsCreated ==
  \A w \in QueuedItems \cup done : w.h # NullStream

\* C28: InitGPUQueue for a batch that is not a reduction leaves the rotating pointer
\* and the recorded stream_index unchanged; InitGPU and FinalizeGPUQueue never
\* change the rotating pointer; and the rotating pointer stays within 0..L-1, L
\* the length of the assignment table.
C28_Frame ==
  [][/\ (QueueStep /\ ~batches'[Len(batches')].is_allreduce) =>
          /\ current_gpu_stream' = current_gpu_stream
          /\ stream_index' = stream_index
     /\ GPUStep => current_gpu_stream' = current_gpu_stream
     /\ FinalizeStep => current_gpu_stream' = current_gpu_stream
     /\ current_gpu_stream \in 0..(TableLen - 1)
     /\ current_gpu_stream' \in 0..(TableLen - 1)]_vars

\* a reduction batch moved the pointer off 0 and was handed off; a gather batch went
\* through InitGPU and InitGPUQueue after it with pointer and stream_index as they were
C28_Witness ==
  /\ Len(batches) = 2 /\ Queued(2) /\ ViaInitGPU(2) /\ ret[0] # "none"
  /\ batches[1].is_allreduce /\ ~batches[2].is_allreduce
  /\ batches[2].ptr = 1 /\ current_gpu_stream = 1
  /\ stream_index = batches[1].slot /\ stream_index # batches[2].slot

\* C30: after InitNewStream(times) new_stream refers to the entry of the current
\* generation and slot (times mod 10) + 3, a slot in 3..12, and that entry holds a
\* created stream: one was created if the entry held none.
C30_NewStreamCreated ==
  new_stream # NoStream =>
    /\ new_stream[1] \in Gens
    /\ new_stream[2] \in 3..12
    /\ StreamAt(new_stream[1], new_stream[2]) # NullStream

\* the bytes entry e occupies in the fusion buffer
Region(e) == (staging.at[e] + 1)..(staging.at[e] + Len(staging.tensor[e]))

NonOverlapping ==
  \A e \in 1..staging.n : \A f \in 1..staging.n : e # f => Region(e) \cap Region(f) = {}

\* the output of entry e had the entry been copied alone, tensor to output
Alone(e) ==
  MemcpyAsyncD2D(Fresh(Len(staging.output[e])), staging.entry_offset[e],
                 staging.tensor[e], 0, Len(staging.tensor[e]))

\* C21: when the entries of a batch were copied into one fusion buffer at pairwise
\* non-overlapping offsets and copied out from the same offsets, nothing in between,
\* the output of each entry holds the bytes of that entry's input, as if the entry
\* had been copied alone, whatever the data of the other entries.
C21_StagingRoundTrip ==
  (staging.variant # "none" /\ NonOverlapping) =>
    \A e \in 1..staging.outs :
      /\ staging.output[e] = Alone(e)
      /\ \A i \in 1..Len(staging.tensor[e]) :
           staging.output[e][staging.entry_offset[e] + i] = staging.tensor[e][i]

\* two entries with different data, the second placed in front of the first in the
\* buffer, were copied in and out
C21_Witness ==
  /\ staging.variant = "GPUAllreduce" /\ staging.n = 2 /\ staging.outs = 2
  /\ NonOverlapping /\ staging.at[2] < staging.at[1] /\ staging.at[2] > 0
  /\ staging.tensor[1] = <<1, 2>> /\ staging.tensor[2] = <<2>>
  /\ staging.output[1] = <<1, 2>> /\ staging.output[2] = <<2>>

\* C22: a failure of the framework allocation in AllocatePersistent, AllocateOutput
\* or AllocateZeros is reported to the caller as a status of the engine's taxonomy
\* that is not OK, no exception leaves the call, and the output handle is left
\* unassigned.
C22_AllocationFailureReported ==
  (/\ allocation.variant \in {"AllocatePersistent", "AllocateOutput", "AllocateZeros"}
   /\ allocation.attempted /\ allocation.code # "OK") =>
    /\ allocation.status \in EngineStatuses \ {"OK"}
    /\ ~allocation.escaped
    /\ ~allocation.assigned

\* AllocatePersistent was called and the framework was out of memory: the call
\* returned an unknown-error status and assigned no buffer
C22_Witness ==
  /\ allocation.variant = "AllocatePersistent"
  /\ allocation.code = "RESOURCE_EXHAUSTED"
  /\ allocation.status = "UNKNOWN_ERROR" /\ ~allocation.assigned /\ ~allocation.escaped

\* the engine types and the framework codes that have a counterpart
PreservedTypes == {"OK", "UNKNOWN_ERROR", "PRECONDITION_ERROR", "ABORTED", "INVALID_ARGUMENT"}
PreservedCodes == {"OK", "UNKNOWN", "FAILED_PRECONDITION", "ABORTED", "INVALID_ARGUMENT"}

\* C29: the two ConvertStatus functions preserve the category: an engine status of
\* type OK, UNKNOWN_ERROR, PRECONDITION_ERROR, ABORTED or INVALID_ARGUMENT converted
\* to a framework status and back has the same type, and so has a framework status
\* of the matching codes; every other engine type, in-progress included, and every
\* other framework code is mapped to the unknown-error category; only OK maps to OK.
C29_CategoryPreserved ==
  /\ converted.variant = "toFramework" =>
       /\ converted.arg \in PreservedTypes => converted.back = converted.arg
       /\ converted.arg \notin PreservedTypes =>
            converted.result = "UNKNOWN" /\ converted.back = "UNKNOWN_ERROR"
       /\ (converted.result = "OK") <=> (converted.arg = "OK")
  /\ converted.variant = "fromFramework" =>
       /\ converted.arg \in PreservedCodes => converted.back = converted.arg
       /\ converted.arg \notin PreservedCodes =>
            converted.result = "UNKNOWN_ERROR" /\ converted.back = "UNKNOWN"
       /\ (converted.result = "OK") <=> (converted.arg = "OK")

\* an aborted framework status was converted to the engine's aborted type and back
C29_Witness ==
  /\ converted.variant = "fromFramework" /\ converted.arg = "ABORTED"
  /\ converted.result = "ABORTED" /\ converted.back = "ABORTED"

====
